---------------------------- MODULE Spec2Model ----------------------------
(***************************************************************************)
(* State-machine model of sales_dashboard.py: a Streamlit script that      *)
(* loads RawData.csv once (load_data, cached), stops when the table is     *)
(* empty, and otherwise recomputes the global filter, the KPI totals, the  *)
(* category / channel shares, the salesman ranking and the fast-moving     *)
(* SKU table from the widget values on every interaction.                  *)
(*                                                                         *)
(* Cells of the CSV file are modelled by what pandas makes of them:        *)
(*   - a text cell of a key column is a string, the missing cell is NaN;   *)
(*   - a Type cell is a sequence of characters (upper-cased and stripped   *)
(*     by load_data);                                                      *)
(*   - a numeric cell is a record: a parseable number or not;              *)
(*   - a Date cell is the triple <<DD, MM, YYYY>> of a day-first date      *)
(*     text; a parsed date is the integer YYYYMMDD, which orders as the    *)
(*     timestamps do.                                                      *)
(* Amounts are integers (minor currency units).                            *)
(***************************************************************************)
EXTENDS Integers, Sequences, FiniteSets, TLC

VARIABLES
    fileExists,       \* RawData.csv is present
    raw,              \* its rows, as read by pd.read_csv
    pc,               \* "start" | "stopped" (st.stop) | "rendered"
    errorShown,       \* st.error was called
    df,               \* the table load_data returned
    ran,              \* the script sections the last run executed
    start_date, end_date, type_filter, channel_filter,
    salesman_filter,
    sku_start, sku_end, sku_category, sku_subcat, sku_channel,
    filtered_df,
    net_revenue, sales_value, return_value, sales_volume,
    cat_share, ch_share,
    salesman_df, salesman_perf,
    sku_df, fast_sku,
    steps             \* widget interactions so far

widgets == <<start_date, end_date, type_filter, channel_filter, salesman_filter,
             sku_start, sku_end, sku_category, sku_subcat, sku_channel>>
outputs == <<filtered_df, net_revenue, sales_value, return_value, sales_volume,
             cat_share, ch_share, salesman_df, salesman_perf, sku_df, fast_sku>>
vars == <<fileExists, raw, pc, errorShown, df, ran, widgets, outputs, steps>>

-----------------------------------------------------------------------------
(* Bounds of the model *)

\* Longest file of the loader specification
MaxRows == 2
\* Widget interactions followed after the first run
MaxSteps == 2

-----------------------------------------------------------------------------
(* Generic helpers *)

Abs(x) == IF x < 0 THEN -x ELSE x

RECURSIVE SumSeq(_, _)
\* pandas Series.sum of column c of table t (0 on the empty table)
SumSeq(t, c) == IF t = <<>> THEN 0 ELSE t[1][c] + SumSeq(Tail(t), c)

RECURSIVE SumAbs(_)
\* Series.abs().sum() of the Value column
SumAbs(t) == IF t = <<>> THEN 0 ELSE Abs(t[1]["Value"]) + SumAbs(Tail(t))

\* The missing cell of a text column (read_csv reads "", "NaN", "NA" as NaN)
NaN == "NaN"
\* The unparseable date
NaT == 0

-----------------------------------------------------------------------------
(* load_data *)

\* df.rename(columns=rename_map): other headers pass through
rename_map(h) ==
    CASE h = "CHANNEL" -> "Channel"
      [] h = "Sales Executive" -> "Salesman"
      [] h = "Sub Category" -> "SubCategory"
      [] h = "Part Number" -> "PartNo"
      [] h = "Amount" -> "Value"
      [] OTHER -> h

Rename(row) ==
    [c \in {rename_map(h) : h \in DOMAIN row} |->
        row[CHOOSE h \in DOMAIN row : rename_map(h) = c]]

\* str.upper on one character of the alphabet used
UpperChar(c) ==
    CASE c = "s" -> "S" [] c = "a" -> "A" [] c = "l" -> "L" [] c = "e" -> "E"
      [] c = "r" -> "R" [] c = "t" -> "T" [] c = "u" -> "U" [] c = "n" -> "N"
      [] c = "x" -> "X"
      [] OTHER -> c

Upper(s) == [i \in 1..Len(s) |-> UpperChar(s[i])]

RECURSIVE LStrip(_)
LStrip(s) == IF s # <<>> /\ s[1] = " " THEN LStrip(Tail(s)) ELSE s

RECURSIVE RStrip(_)
RStrip(s) == IF s # <<>> /\ s[Len(s)] = " " THEN RStrip(SubSeq(s, 1, Len(s) - 1)) ELSE s

Strip(s) == RStrip(LStrip(s))

\* astype(str) of a Type cell: the missing cell becomes the text "nan"
AsStr(cell) == IF cell = <<>> THEN <<"n", "a", "n">> ELSE cell

\* df["Type"].astype(str).str.upper().str.strip()
NormType(cell) == Strip(Upper(AsStr(cell)))

SALE == <<"S", "A", "L", "E">>
RETURN == <<"R", "E", "T", "U", "R", "N">>

\* pd.to_numeric(..., errors="coerce").fillna(0)
ToNumeric(cell) == IF cell.ok THEN cell.n ELSE 0

IsLeap(y) == (y % 4 = 0 /\ y % 100 # 0) \/ y % 400 = 0

DaysIn(m, y) ==
    CASE m \in {1, 3, 5, 7, 8, 10, 12} -> 31
      [] m \in {4, 6, 9, 11} -> 30
      [] m = 2 -> IF IsLeap(y) THEN 29 ELSE 28
      [] OTHER -> 0

\* pd.to_datetime(cell, dayfirst=True, errors="coerce") of a DD/MM/YYYY text
ToDatetime(cell) ==
    LET d == cell[1]  m == cell[2]  y == cell[3]
    IN  IF y >= 1 /\ m \in 1..12 /\ d >= 1 /\ d <= DaysIn(m, y)
        THEN y * 10000 + m * 100 + d
        ELSE NaT

\* A sign slip: returns negated without abs()
ForceNegative_NoAbs(t, v) == IF t = RETURN THEN -v ELSE v

\* df.loc[df["Type"] == "RETURN", "Value"] = -df.loc[..., "Value"].abs()
ForceNegative(t, v) == IF t = RETURN THEN -Abs(v) ELSE v

\* Lines 32-43 on one row: Type, Value, Qty, the sign of returns, Date
NormRow(row) ==
    LET r == Rename(row)
        t == NormType(r["Type"])
        v == ToNumeric(r["Value"])
    IN  [c \in DOMAIN r |->
            CASE c = "Type" -> t
              [] c = "Value" -> ForceNegative(t, v)
              [] c = "Qty" -> ToNumeric(r["Qty"])
              [] c = "Date" -> ToDatetime(r["Date"])
              [] OTHER -> r[c]]

\* The dropna forgotten
DropNaDate_Keep(t) == t

\* df.dropna(subset=["Date"])
DropNaDate(t) == SelectSeq(t, LAMBDA r : r["Date"] # NaT)

\* load_data() when the file is there
Normalize(t) == DropNaDate([i \in 1..Len(t) |-> NormRow(t[i])])

\* load_data(): the empty DataFrame when read_csv raises FileNotFoundError
load_data == IF fileExists THEN Normalize(raw) ELSE <<>>

\* The emptiness check lost
Empty_Never(t) == FALSE

\* df.empty
Empty(t) == t = <<>>

-----------------------------------------------------------------------------
(* pandas helpers used by the script body *)

\* Text values in the order sorted() and groupby give them
Collation == <<"A", "B", "P1", "P2", "P3", "S1", "S2", "c1", "c2", "s1", "s2">>

Rank(s) == CHOOSE i \in 1..Len(Collation) : Collation[i] = s

RECURSIVE TupleLE(_, _)
\* Lexicographic order of two key tuples of the same length
TupleLE(a, b) ==
    IF a = <<>> THEN TRUE
    ELSE IF a[1] # b[1] THEN Rank(a[1]) < Rank(b[1])
    ELSE TupleLE(Tail(a), Tail(b))

RECURSIVE SortKeys(_)
\* The key tuples of a set in ascending order
SortKeys(S) ==
    IF S = {} THEN <<>>
    ELSE LET m == CHOOSE k \in S : \A o \in S : TupleLE(k, o)
         IN  <<m>> \o SortKeys(S \ {m})

\* The key of row r over the columns cols
KeyOf(r, cols) == [i \in 1..Len(cols) |-> r[cols[i]]]

\* groupby(cols) keeps only the rows whose key columns are all present
\* (dropna=True, the default)
GroupKeys(t, cols) ==
    {KeyOf(t[i], cols) : i \in {j \in 1..Len(t) : \A c \in 1..Len(cols) : t[j][cols[c]] # NaN}}

\* t.groupby(cols)[col].sum().reset_index(): one row per key, in key order
GroupSum(t, cols, col) ==
    LET keys == SortKeys(GroupKeys(t, cols))
    IN  [g \in 1..Len(keys) |->
            [key |-> keys[g],
             sum |-> SumSeq(SelectSeq(t, LAMBDA r : KeyOf(r, cols) = keys[g]), col)]]

\* Where a stable sort puts x in the sorted sequence s
InsertAt(s, x, ascending) ==
    Cardinality({i \in 1..Len(s) :
        IF ascending THEN s[i].sum <= x.sum ELSE s[i].sum >= x.sum})

RECURSIVE SortValues(_, _)
\* sort_values on the summed column
SortValues(s, ascending) ==
    IF s = <<>> THEN <<>>
    ELSE LET rest == SortValues(SubSeq(s, 1, Len(s) - 1), ascending)
             x == s[Len(s)]
             p == InsertAt(rest, x, ascending)
         IN  SubSeq(rest, 1, p) \o <<x>> \o SubSeq(rest, p + 1, Len(rest))

\* DataFrame.head(n)
HeadN(s, n) == SubSeq(s, 1, IF Len(s) < n THEN Len(s) ELSE n)

-----------------------------------------------------------------------------
(* The script body, lines 55-198 *)

BOTH == <<"B", "O", "T", "H">>

\* The rows of the SKU table
TopN == 10

\* sorted(t[col].dropna().unique()): the options of a multiselect
Options(t, col) == {t[i][col] : i \in 1..Len(t)} \ {NaN}

\* df["Date"].min() / .max(), the defaults of the date inputs
MinDate(t) == IF t = <<>> THEN NaT
              ELSE CHOOSE d \in {t[i]["Date"] : i \in 1..Len(t)} :
                       \A i \in 1..Len(t) : d <= t[i]["Date"]

MaxDate(t) == IF t = <<>> THEN NaT
              ELSE CHOOSE d \in {t[i]["Date"] : i \in 1..Len(t)} :
                       \A i \in 1..Len(t) : d >= t[i]["Date"]

\* The end date excluded
InDateRange_OpenEnd(d, s, e) == d >= s /\ d < e

\* (df["Date"] >= start) & (df["Date"] <= end)
InDateRange(d, s, e) == d >= s /\ d <= e

\* if type_filter != "BOTH": mask &= (df["Type"] == type_filter)
TypeMatches(tf, t) == tf # BOTH => t = tf

\* isin applied to the empty selection too
Selected_NoGuard(sel, v) == v \in sel

\* if sel: mask &= col.isin(sel)
Selected(sel, v) == sel # {} => v \in sel

\* Lines 73-79
mask(r, sd, ed, tf, cf) ==
    /\ InDateRange(r["Date"], sd, ed)
    /\ TypeMatches(tf, r["Type"])
    /\ Selected(cf, r["Channel"])

\* Line 81
FilteredDf(t, sd, ed, tf, cf) == SelectSeq(t, LAMBDA r : mask(r, sd, ed, tf, cf))

\* Lines 86-87
SalesDf(f) == SelectSeq(f, LAMBDA r : r["Type"] = SALE)
ReturnDf(f) == SelectSeq(f, LAMBDA r : r["Type"] = RETURN)

\* Lines 109-110
ChartData(f) ==
    [i \in 1..Len(f) |->
        [c \in DOMAIN f[i] \cup {"AbsValue"} |->
            IF c = "AbsValue" THEN Abs(f[i]["Value"]) ELSE f[i][c]]]

\* Lines 112-121: the shares are computed only when chart_data is not empty
Share(f, col) ==
    IF Empty(ChartData(f)) THEN <<>> ELSE GroupSum(ChartData(f), <<col>>, "AbsValue")

\* Lines 136-138
SalesmanDf(f, sf) == SelectSeq(f, LAMBDA r : Selected(sf, r["Salesman"]))

\* Lines 140-145
SalesmanPerf(sdf) == SortValues(GroupSum(sdf, <<"Salesman">>, "Value"), TRUE)

\* Lines 178-186
sku_mask(r, ks, ke, kc, kb, kh) ==
    /\ InDateRange(r["Date"], ks, ke)
    /\ r["Type"] = SALE
    /\ Selected(kc, r["Category"])
    /\ Selected(kb, r["SubCategory"])
    /\ Selected(kh, r["Channel"])

\* The SKU mask applied to the globally filtered table
SkuSource_Filtered(t, f) == f

\* The table the SKU mask indexes: df, not filtered_df
SkuSource(t, f) == t

\* Line 188
SkuDf(t, f, ks, ke, kc, kb, kh) ==
    SelectSeq(SkuSource(t, f), LAMBDA r : sku_mask(r, ks, ke, kc, kb, kh))

\* Lines 190-196
FastSku(sdf) ==
    HeadN(SortValues(GroupSum(sdf, <<"PartNo", "Category", "SubCategory">>, "Qty"), FALSE), TopN)

\* One run of the script body on table t with the given widget values.  The
\* salesman multiselect draws its options from filtered_df: when they change
\* Streamlit builds a new widget, whose selection is empty.
Run(t, sd, ed, tf, cf, sf, ks, ke, kc, kb, kh) ==
    LET f  == FilteredDf(t, sd, ed, tf, cf)
        s  == IF Options(f, "Salesman") = Options(filtered_df, "Salesman") THEN sf ELSE {}
        sm == SalesmanDf(f, s)
        k  == SkuDf(t, f, ks, ke, kc, kb, kh)
    IN  /\ start_date' = sd /\ end_date' = ed /\ type_filter' = tf
        /\ channel_filter' = cf /\ salesman_filter' = s
        /\ sku_start' = ks /\ sku_end' = ke
        /\ sku_category' = kc /\ sku_subcat' = kb /\ sku_channel' = kh
        /\ filtered_df' = f
        /\ net_revenue' = SumSeq(f, "Value")
        /\ sales_value' = SumSeq(SalesDf(f), "Value")
        /\ return_value' = SumSeq(ReturnDf(f), "Value")
        /\ sales_volume' = SumSeq(SalesDf(f), "Qty")
        /\ cat_share' = Share(f, "Category")
        /\ ch_share' = Share(f, "Channel")
        /\ salesman_df' = sm
        /\ salesman_perf' = SalesmanPerf(sm)
        /\ sku_df' = k
        /\ fast_sku' = FastSku(k)
        /\ ran' = {"filters", "kpi", "charts", "salesman", "sku"}
        /\ pc' = "rendered"

-----------------------------------------------------------------------------
(* Actions *)

\* The first run, lines 50-53 and on: load_data, st.stop on the empty table,
\* otherwise the whole body with every widget at its default
FirstRun ==
    /\ pc = "start"
    /\ df' = load_data
    /\ errorShown' = ~fileExists
    /\ IF Empty(df')
       THEN /\ pc' = "stopped"
            /\ ran' = {}
            /\ UNCHANGED <<widgets, outputs>>
       ELSE Run(df', MinDate(df'), MaxDate(df'), BOTH, {}, {},
                MinDate(df'), MaxDate(df'), {}, {}, {})
    /\ UNCHANGED <<fileExists, raw, steps>>

\* The dates a date input is set to
DateChoices == {20250301, 20250302, 20250415}

\* A widget interaction reruns the script; load_data is cached
Interact ==
    /\ pc = "rendered"
    /\ steps < MaxSteps
    /\ steps' = steps + 1
    /\ UNCHANGED <<fileExists, raw, df, errorShown>>

SetStartDate ==
    /\ Interact
    /\ \E d \in DateChoices :
         Run(df, d, end_date, type_filter, channel_filter, salesman_filter,
             sku_start, sku_end, sku_category, sku_subcat, sku_channel)

SetEndDate ==
    /\ Interact
    /\ \E d \in DateChoices :
         Run(df, start_date, d, type_filter, channel_filter, salesman_filter,
             sku_start, sku_end, sku_category, sku_subcat, sku_channel)

SetType ==
    /\ Interact
    /\ \E tf \in {BOTH, SALE, RETURN} :
         Run(df, start_date, end_date, tf, channel_filter, salesman_filter,
             sku_start, sku_end, sku_category, sku_subcat, sku_channel)

SetChannel ==
    /\ Interact
    /\ \E cf \in SUBSET Options(df, "Channel") :
         Run(df, start_date, end_date, type_filter, cf, salesman_filter,
             sku_start, sku_end, sku_category, sku_subcat, sku_channel)

SetSalesman ==
    /\ Interact
    /\ \E sf \in SUBSET Options(filtered_df, "Salesman") :
         Run(df, start_date, end_date, type_filter, channel_filter, sf,
             sku_start, sku_end, sku_category, sku_subcat, sku_channel)

SetSkuStart ==
    /\ Interact
    /\ \E d \in DateChoices :
         Run(df, start_date, end_date, type_filter, channel_filter, salesman_filter,
             d, sku_end, sku_category, sku_subcat, sku_channel)

SetSkuEnd ==
    /\ Interact
    /\ \E d \in DateChoices :
         Run(df, start_date, end_date, type_filter, channel_filter, salesman_filter,
             sku_start, d, sku_category, sku_subcat, sku_channel)

SetSkuCategory ==
    /\ Interact
    /\ \E kc \in SUBSET Options(df, "Category") :
         Run(df, start_date, end_date, type_filter, channel_filter, salesman_filter,
             sku_start, sku_end, kc, sku_subcat, sku_channel)

SetSkuSubcat ==
    /\ Interact
    /\ \E kb \in SUBSET Options(df, "SubCategory") :
         Run(df, start_date, end_date, type_filter, channel_filter, salesman_filter,
             sku_start, sku_end, sku_category, kb, sku_channel)

SetSkuChannel ==
    /\ Interact
    /\ \E kh \in SUBSET Options(df, "Channel") :
         Run(df, start_date, end_date, type_filter, channel_filter, salesman_filter,
             sku_start, sku_end, sku_category, sku_subcat, kh)

-----------------------------------------------------------------------------
(* Files *)

Num(n) == [ok |-> TRUE, n |-> n]
NotNum == [ok |-> FALSE, n |-> 0]

\* One line of RawData.csv under its source headers
Line(date, type, amount, qty, cat, sub, ch, exec, part) ==
    [Date |-> date, Type |-> type, Amount |-> amount, Qty |-> qty, Category |-> cat]
    @@ ("Sub Category" :> sub) @@ ("CHANNEL" :> ch)
    @@ ("Sales Executive" :> exec) @@ ("Part Number" :> part)

\* The lines the dashboard specification draws its files from
MasterFile == <<
    Line(<<1, 3, 2025>>, SALE, Num(100), Num(5), "A", "S1", "c1", "s1", "P1"),
    Line(<<2, 3, 2025>>, <<" ", "r", "e", "t", "u", "r", "n">>, Num(20), Num(1),
         "A", "S1", "c1", "s1", "P1"),
    Line(<<2, 3, 2025>>, <<"s", "a", "l", "e">>, Num(30), Num(2), "B", "S2", "c2", "s2", "P2"),
    Line(<<1, 3, 2025>>, SALE, Num(40), Num(7), NaN, "S1", NaN, "s2", "P3"),
    Line(<<2, 3, 2025>>, <<"X">>, Num(7), NotNum, "B", "S2", "c2", "s1", "P2"),
    Line(<<15, 4, 2025>>, RETURN, Num(-3), Num(1), "B", "S2", "c2", "s2", "P2") >>

\* The lines of s with their index in I, in file order
Pick(s, I) ==
    LET F[i \in 0..Len(s)] ==
            IF i = 0 THEN <<>>
            ELSE IF i \in I THEN Append(F[i - 1], s[i]) ELSE F[i - 1]
    IN  F[Len(s)]

\* Every file made of lines of the master file
DashFiles == {Pick(MasterFile, I) : I \in SUBSET (1..Len(MasterFile))}

\* The cells the loader specification draws its lines from
LoadDates == {<<1, 3, 2025>>, <<29, 2, 2024>>, <<29, 2, 2025>>, <<32, 13, 2025>>}
LoadTypes == {SALE, RETURN, <<" ", "r", "e", "t", "u", "r", "n">>, <<"X">>, <<>>}
LoadValues == {Num(20), Num(-3), NotNum}

LoadLines ==
    {Line(d, t, v, Num(1), "A", "S1", "c1", "s1", "P1") :
        d \in LoadDates, t \in LoadTypes, v \in LoadValues}

LoadFiles == UNION {[1..n -> LoadLines] : n \in 0..MaxRows}

-----------------------------------------------------------------------------
(* Specifications *)

InitWith(files) ==
    /\ fileExists \in BOOLEAN
    /\ raw \in (IF fileExists THEN files ELSE {<<>>})
    /\ pc = "start"
    /\ errorShown = FALSE
    /\ df = <<>>
    /\ ran = {}
    /\ start_date = NaT /\ end_date = NaT /\ type_filter = BOTH
    /\ channel_filter = {} /\ salesman_filter = {}
    /\ sku_start = NaT /\ sku_end = NaT
    /\ sku_category = {} /\ sku_subcat = {} /\ sku_channel = {}
    /\ filtered_df = <<>>
    /\ net_revenue = 0 /\ sales_value = 0 /\ return_value = 0 /\ sales_volume = 0
    /\ cat_share = <<>> /\ ch_share = <<>>
    /\ salesman_df = <<>> /\ salesman_perf = <<>>
    /\ sku_df = <<>> /\ fast_sku = <<>>
    /\ steps = 0

Init == InitWith(DashFiles)

Next ==
    \/ FirstRun
    \/ SetStartDate \/ SetEndDate \/ SetType \/ SetChannel
    \/ SetSalesman
    \/ SetSkuStart \/ SetSkuEnd \/ SetSkuCategory \/ SetSkuSubcat \/ SetSkuChannel

\* The dashboard: files of the master lines, the first run, then interactions
Spec == Init /\ [][Next]_vars

InitLoad == InitWith(LoadFiles)

NextLoad == FirstRun

\* The loader: every file of up to MaxRows lines, and the first run
SpecLoad == InitLoad /\ [][NextLoad]_vars

-----------------------------------------------------------------------------
(* Properties of the loader, checked under SpecLoad *)

Loaded == pc # "start"

Rows(t) == {t[i] : i \in 1..Len(t)}

DatesOf(t) == {r["Date"] : r \in Rows(t)}

\* C1: after load_data every row whose Type is RETURN has Value <= 0, and so
\* the return value of every filtered view (any date range, type and channel
\* selection) is <= 0.
C1_ReturnsNotPositive ==
    Loaded =>
        /\ \A r \in Rows(df) : r["Type"] = RETURN => r["Value"] <= 0
        /\ return_value <= 0
        /\ \A sd \in DatesOf(df), ed \in DatesOf(df), tf \in {BOTH, SALE, RETURN},
              cf \in SUBSET Options(df, "Channel") :
                SumSeq(ReturnDf(FilteredDf(df, sd, ed, tf, cf)), "Value") <= 0

\* A lower-case, padded return with a positive amount and one with a negative
\* amount were loaded and the dashboard shows a negative return value.
C1_Witness ==
    /\ pc = "rendered"
    /\ \E i \in 1..Len(raw) :
         raw[i]["Type"] = <<" ", "r", "e", "t", "u", "r", "n">> /\ raw[i]["Amount"] = Num(20)
    /\ \E i \in 1..Len(raw) : raw[i]["Type"] = RETURN /\ raw[i]["Amount"] = Num(-3)
    /\ Len(df) = 2
    /\ return_value = -23

\* The calendar, stated apart from the parser: DD/MM/YYYY names a day
CalendarDay(cell) ==
    LET d == cell[1]  m == cell[2]  y == cell[3]
        feb == IF y % 400 = 0 \/ (y % 4 = 0 /\ y % 100 # 0) THEN 29 ELSE 28
        len == <<31, feb, 31, 30, 31, 30, 31, 31, 30, 31, 30, 31>>
    IN  y >= 1 /\ m >= 1 /\ m <= 12 /\ d >= 1 /\ d <= len[m]

\* The parsed date YYYYMMDD names a day
CalendarStamp(n) == n > 0 /\ CalendarDay(<<n % 100, (n \div 100) % 100, n \div 10000>>)

C7_MissingFileStops ==
    (Loaded /\ ~fileExists) =>
        /\ df = <<>>
        /\ errorShown
        /\ pc = "stopped"
        /\ ran = {}
        /\ filtered_df = <<>> /\ fast_sku = <<>> /\ salesman_perf = <<>>

\* The first run has ended on a missing file.
C7_Witness == ~fileExists /\ pc = "stopped" /\ errorShown /\ df = <<>>

-----------------------------------------------------------------------------
(* Properties of the dashboard, checked under Spec *)

Rendered == pc = "rendered"

\* C2: for every filtered set the global filter produces, NetRevenue equals
\* SaleValue + ReturnValue.
C2_NetIsSalePlusReturn == Rendered => net_revenue = sales_value + return_value

\* C3: an empty selection of a multi-valued criterion (global channel,
\* salesman, SKU category, SKU sub-category, SKU channel) gives exactly the
\* rows the other criteria give: it matches everything, never nothing.
C3_EmptySelectionMatchesAll ==
    Rendered =>
        /\ channel_filter = {} =>
             filtered_df = SelectSeq(df, LAMBDA r :
                 /\ r["Date"] >= start_date /\ r["Date"] <= end_date
                 /\ (type_filter = BOTH \/ r["Type"] = type_filter))
        /\ salesman_filter = {} => salesman_df = filtered_df
        /\ sku_category = {} =>
             sku_df = SelectSeq(df, LAMBDA r :
                 /\ r["Date"] >= sku_start /\ r["Date"] <= sku_end /\ r["Type"] = SALE
                 /\ (sku_subcat = {} \/ r["SubCategory"] \in sku_subcat)
                 /\ (sku_channel = {} \/ r["Channel"] \in sku_channel))
        /\ sku_subcat = {} =>
             sku_df = SelectSeq(df, LAMBDA r :
                 /\ r["Date"] >= sku_start /\ r["Date"] <= sku_end /\ r["Type"] = SALE
                 /\ (sku_category = {} \/ r["Category"] \in sku_category)
                 /\ (sku_channel = {} \/ r["Channel"] \in sku_channel))
        /\ sku_channel = {} =>
             sku_df = SelectSeq(df, LAMBDA r :
                 /\ r["Date"] >= sku_start /\ r["Date"] <= sku_end /\ r["Type"] = SALE
                 /\ (sku_category = {} \/ r["Category"] \in sku_category)
                 /\ (sku_subcat = {} \/ r["SubCategory"] \in sku_subcat))

\* The global channel and the SKU category selections are empty while the
\* type and the SKU sub-category are restricted, and rows (one of them with no
\* channel and no category at all) pass both filters.
C3_Witness ==
    /\ Rendered
    /\ channel_filter = {} /\ sku_category = {} /\ salesman_filter = {}
    /\ type_filter = SALE /\ sku_subcat = {"S1"}
    /\ \E r \in Rows(filtered_df) : r["Channel"] = NaN
    /\ \E r \in Rows(sku_df) : r["Category"] = NaN
    /\ Len(filtered_df) < Len(df)

\* C4: the Category share magnitudes, and the Channel share magnitudes, sum
\* to sum(abs(Value)) over the filtered set: every filtered row is in exactly
\* one group.
C4_SharesCoverFilteredSet ==
    Rendered =>
        /\ SumSeq(cat_share, "sum") = SumAbs(filtered_df)
        /\ SumSeq(ch_share, "sum") = SumAbs(filtered_df)

\* C6: the fast-moving SKU table has at most 10 rows, is built only from SALE
\* rows inside the SKU date range, has one row per (PartNo, Category,
\* SubCategory) group with the group's summed Qty, is sorted non-increasing by
\* Qty, and no group left out has a larger summed Qty than a group included.
C6_FastSkuTopGroups ==
    Rendered =>
        LET cols == <<"PartNo", "Category", "SubCategory">>
            groups == {KeyOf(r, cols) : r \in Rows(sku_df)}
            qty(g) == SumSeq(SelectSeq(sku_df, LAMBDA r : KeyOf(r, cols) = g), "Qty")
            shown == {fast_sku[i].key : i \in 1..Len(fast_sku)}
        IN  /\ Len(fast_sku) <= 10
            /\ \A r \in Rows(sku_df) :
                 r["Type"] = SALE /\ r["Date"] >= sku_start /\ r["Date"] <= sku_end
            /\ \A i \in 1..Len(fast_sku) :
                 fast_sku[i].key \in groups /\ fast_sku[i].sum = qty(fast_sku[i].key)
            /\ \A i, j \in 1..Len(fast_sku) :
                 i < j => /\ fast_sku[i].key # fast_sku[j].key
                          /\ fast_sku[i].sum >= fast_sku[j].sum
            /\ \A g \in groups \ shown : \A h \in shown : qty(g) <= qty(h)

FirstOfMonth(n) == (n \div 100) * 100 + 1

RECURSIVE SumOver(_, _)
SumOver(S, f) ==
    IF S = {} THEN 0
    ELSE LET x == CHOOSE y \in S : TRUE IN f[x] + SumOver(S \ {x}, f)

\* C9: every normalized row carries a Month, the first day of its Date's
\* month; summed per (Month, Type), the (Month, SALE) values add up to
\* SaleValue and the (Month, RETURN) values to ReturnValue.
C9_MonthlyTrend ==
    Rendered =>
        /\ \A r \in Rows(df) :
             "Month" \in DOMAIN r /\ r["Month"] = FirstOfMonth(r["Date"])
        /\ LET months == {r["Month"] : r \in Rows(filtered_df)}
               trend(t) == [m \in months |->
                   SumSeq(SelectSeq(filtered_df,
                       LAMBDA r : r["Month"] = m /\ r["Type"] = t), "Value")]
           IN  /\ SumOver(months, trend(SALE)) = sales_value
               /\ SumOver(months, trend(RETURN)) = return_value

\* C10: the fast-moving SKU table depends on the table and the SKU criteria
\* only: a step that leaves the SKU criteria as they are (any change of the
\* global date range, type, channel or salesman selection) leaves it as it
\* is; and a step that leaves the global selections as they are (any change
\* of the SKU criteria) leaves the KPI totals, the shares and the salesman
\* ranking as they are.
C10_SkuIndependent ==
    [][Rendered =>
        /\ (<<sku_start, sku_end, sku_category, sku_subcat, sku_channel>>'
              = <<sku_start, sku_end, sku_category, sku_subcat, sku_channel>>)
           => (fast_sku' = fast_sku /\ sku_df' = sku_df)
        /\ (<<start_date, end_date, type_filter, channel_filter, salesman_filter>>'
              = <<start_date, end_date, type_filter, channel_filter, salesman_filter>>)
           => (<<filtered_df, net_revenue, sales_value, return_value, sales_volume,
                 cat_share, ch_share, salesman_df, salesman_perf>>'
               = <<filtered_df, net_revenue, sales_value, return_value, sales_volume,
                   cat_share, ch_share, salesman_df, salesman_perf>>)]_vars

\* After two interactions the global filter shows returns only, on one
\* channel, while the SKU table still lists the sales of the whole table.
C10_Witness ==
    /\ Rendered
    /\ steps = 2
    /\ type_filter = RETURN /\ channel_filter = {"c1"}
    /\ filtered_df # <<>>
    /\ Len(fast_sku) = 2

=============================================================================
